---------------------------- MODULE Spec2Model ----------------------------
(***************************************************************************)
(* The COVID-19 dashboard script "Covid 19/App.py": the snapshot loader    *)
(* load_world_data with the combined comparison built from its result, and *)
(* the filter-and-aggregate pass over the time-series table.               *)
(*                                                                         *)
(* Countries, regions and dates are numbers: the order of the numbers is   *)
(* the order pandas sorts the names (or the timestamps) in.                *)
(***************************************************************************)
EXTENDS Integers, Sequences, FiniteSets

VARIABLES
    data,               \* the time-series table returned by load_data()
    selected_region,    \* sidebar: the regions picked
    selected_country,   \* sidebar: the countries picked (empty: all)
    start_date,         \* sidebar: date_range[0]
    end_date,           \* sidebar: date_range[1]
    filtered_data,      \* the filtered view
    global_data,        \* per-date totals
    region_deaths,      \* per-region mean of deaths
    top5,               \* the five most affected countries
    pies,               \* the values of each country's pie chart
    tie_order,          \* how this build's quicksort leaves equal keys
    first_view,         \* history: the filtered view of the first run
    rendered,           \* the script has run once
    csv,                \* the rows of worldometer_data.csv
    pc,                 \* where the snapshot part of the script is
    world_data,         \* the snapshot table load_world_data() returned
    cleaned,            \* load_world_data's local frame when it returns
    printed,            \* the columns load_world_data printed a failure for
    totals_grouped      \* the combined comparison's table

tsvars == <<data, selected_region, selected_country, start_date, end_date,
            filtered_data, global_data, region_deaths, top5, pies, tie_order,
            first_view, rendered>>

worldvars == <<csv, pc, world_data, cleaned, printed, totals_grouped>>

vars == <<tsvars, worldvars>>

---------------------------------------------------------------------------
(* Bounds of the inputs. *)

\* The longest time-series table of the narrow family.
MaxRows == 2

\* The most countries picked in the sidebar.
MaxPicked == 1

\* .head(5)
HeadN == 5

Countries == 1..2
Regions == 1..2
Dates == 1..2
CountRange == 0..1
WideCountries == 1..(HeadN + 1)

\* The WHO region a country lies in: a column of the file.
RegionOf(c) == ((c - 1) % Cardinality(Regions)) + 1

\* Confirmed, Deaths, Recovered of one record; Active is what is left.
Profiles ==
    {[Confirmed |-> 0, Deaths |-> 0, Recovered |-> 0],
     [Confirmed |-> 2, Deaths |-> 1, Recovered |-> 0],
     [Confirmed |-> 2, Deaths |-> 0, Recovered |-> 1]}

Row(c, d, p) ==
    [Country |-> c, WHO_Region |-> RegionOf(c), Date |-> d,
     Confirmed |-> p.Confirmed, Deaths |-> p.Deaths, Recovered |-> p.Recovered,
     Active |-> p.Confirmed - p.Deaths - p.Recovered]

\* The sequences of n distinct (country, date) pairs.
RECURSIVE KeySeqs(_, _)
KeySeqs(K, n) ==
    IF n = 0 THEN {<<>>}
    ELSE UNION {{<<k>> \o s : s \in KeySeqs(K \ {k}, n - 1)} : k \in K}

\* A narrow table: a few records of two countries, in any row order.
NarrowTable(ks, ps) ==
    [i \in DOMAIN ks |-> Row(ks[i][1], ks[i][2], ps[i])]

\* A wide table: one record for each of HeadN + 1 countries, the later date
\* in the first rows, with the countries in name order or in reverse name
\* order.
WideTable(n, rev) ==
    [i \in 1..(HeadN + 1) |->
        Row(IF rev THEN HeadN + 2 - i ELSE i, IF 2 * i <= HeadN + 1 THEN 2 ELSE 1,
            [Confirmed |-> n[i], Deaths |-> 0, Recovered |-> 0])]

---------------------------------------------------------------------------
(* pandas helpers *)

IsInOrAll(x, values) == values = {} \/ x \in values

\* Series.isin(values)
IsIn(x, values) == x \in values

BetweenLeftOnly(x, left, right) == left <= x /\ x < right

\* Series.between(left, right): inclusive="both"
Between(x, left, right) == left <= x /\ x <= right

\* df[mask]: the rows the mask keeps, in the order of df
RECURSIVE BoolIndex(_, _)
BoolIndex(df, mask) ==
    IF df = <<>> THEN <<>>
    ELSE (IF mask[1] THEN <<df[1]>> ELSE <<>>)
         \o BoolIndex(Tail(df), Tail(mask))

\* sorted(S): ascending
RECURSIVE Sorted(_)
Sorted(S) ==
    IF S = {} THEN <<>>
    ELSE LET m == CHOOSE x \in S : \A y \in S : x <= y
         IN <<m>> \o Sorted(S \ {m})

\* Series.unique() of a column, as a set
Unique(df, col) == {df[i][col] : i \in DOMAIN df}

\* Series.sum()
RECURSIVE Sum(_, _)
Sum(df, col) == IF df = <<>> THEN 0 ELSE df[1][col] + Sum(Tail(df), col)

\* Series.max() of a non-empty frame
RECURSIVE Max(_, _)
Max(df, col) ==
    IF Len(df) = 1 THEN df[1][col]
    ELSE LET m == Max(Tail(df), col)
         IN IF df[1][col] >= m THEN df[1][col] ELSE m

\* the rows of one group of df.groupby(col)
Group(df, col, key) == BoolIndex(df, [i \in DOMAIN df |-> df[i][col] = key])

HeadOneLess(df, n) == IF Len(df) < n THEN df ELSE SubSeq(df, 1, n - 1)

\* DataFrame.head(n)
Head_(df, n) == IF Len(df) <= n THEN df ELSE SubSeq(df, 1, n)

\* sort_values(by, ascending=False) with the default kind="quicksort", which
\* is not a stable sort: rows with equal keys come out in an order the build
\* of the sorting library fixes, here either the order they had ("kept") or
\* the opposite one ("reversed"). ge[i][j]: row i's key >= row j's key.
RECURSIVE SortDescendingIdx(_, _, _)
SortDescendingIdx(I, ge, tie) ==
    IF I = {} THEN <<>>
    ELSE LET top == {i \in I : \A j \in I : ge[i][j]}
             x == IF tie = "kept"
                  THEN CHOOSE i \in top : \A j \in top : i <= j
                  ELSE CHOOSE i \in top : \A j \in top : i >= j
         IN <<x>> \o SortDescendingIdx(I \ {x}, ge, tie)

SortDescending(df, ge, tie) ==
    LET order == SortDescendingIdx(DOMAIN df, ge, tie)
    IN [k \in DOMAIN df |-> df[order[k]]]

---------------------------------------------------------------------------
(* The snapshot file *)

\* The longest snapshot file.
MaxWorldRows == 2

\* .head(10)
Top10N == 10

\* The columns, in the file's order. A numeric cell is [na, v]: v counts
\* halves in a float64 column and units in an int64 or Int64 column. A text
\* cell is a string, NaNObj when missing.
ObjectCols == {"Country", "Continent", "WHO_Region"}
CountCols == {"TotalDeaths", "TotalTests"}
PerMillion == {"Tests_1M_pop", "Deaths_1M_pop", "Tot_Cases_1M_pop"}
ColOrder == <<"Country", "Continent", "TotalDeaths", "Tot_Cases_1M_pop",
              "Deaths_1M_pop", "TotalTests", "Tests_1M_pop", "WHO_Region">>
NumericCols == CountCols \union PerMillion

NaNObj == "NaN"
NaN == [na |-> TRUE, v |-> 0]
Num(x) == [na |-> FALSE, v |-> x]

\* The countries of the file, in name order.
WorldCountries == <<"Diamond Princess", "Italy">>

\* What a per-million column holds: 2.5 in every row; or nothing in the
\* first row and 2.0 in the others; or 2 in every row.
PerMillionCell(kind, i) ==
    IF kind = "frac" THEN Num(5)
    ELSE IF kind = "gaps" THEN (IF i = 1 THEN NaN ELSE Num(4))
    ELSE Num(4)

\* The per-million columns of a file: at most one of them differs from the
\* usual fractions.
PerMillionKinds ==
    {k \in [PerMillion -> {"frac", "gaps", "whole"}] :
        Cardinality({c \in PerMillion : k[c] # "frac"}) <= 1}

\* The text cells of a row: the ship has neither continent nor region; a
\* country may lack its region.
RowTexts ==
    {[Country |-> "Diamond Princess", Continent |-> NaNObj, WHO_Region |-> NaNObj],
     [Country |-> "Italy", Continent |-> "Europe", WHO_Region |-> "Europe"],
     [Country |-> "Italy", Continent |-> "Europe", WHO_Region |-> NaNObj]}

CsvRow(t, deaths, tests, kinds, i) ==
    [c \in ObjectCols \union NumericCols |->
        IF c \in ObjectCols THEN t[c]
        ELSE IF c = "TotalDeaths" THEN deaths
        ELSE IF c = "TotalTests" THEN tests
        ELSE PerMillionCell(kinds[c], i)]

\* A file of n rows. TotalDeaths: missing, 2 or 2.5. TotalTests: missing
\* or 3.
TotalDeathsCells == {NaN, Num(4), Num(5)}
TotalTestsCells == {NaN, Num(6)}
CsvFile(n, t, d, x, kinds) ==
    [i \in 1..n |-> CsvRow(t[i], d[i], x[i], kinds, i)]

\* The value of a frame variable that holds no frame.
NoFrame == [dtypes |-> <<>>, rows |-> <<>>]

---------------------------------------------------------------------------
(* load_world_data *)

\* pd.read_csv: a numeric column with a missing or a fractional value is
\* float64, any other is int64.
ReadCsv(file) ==
    LET isInt(c) == \A i \in DOMAIN file : ~file[i][c].na /\ file[i][c].v % 2 = 0
    IN [dtypes |-> [c \in ObjectCols \union NumericCols |->
                       IF c \in ObjectCols THEN "object"
                       ELSE IF isInt(c) THEN "int64" ELSE "float64"],
        rows |-> [i \in DOMAIN file |->
                     [c \in ObjectCols \union NumericCols |->
                         IF c \in ObjectCols \/ ~isInt(c) THEN file[i][c]
                         ELSE Num(file[i][c].v \div 2)]]]

\* df.select_dtypes(include=['float64']).columns
SelectFloat64(df) ==
    SelectSeq(ColOrder, LAMBDA c : df.dtypes[c] = "float64")

\* Index.drop(labels) raises KeyError when a label is not in the index.
DropRaises(index, labels) ==
    \E l \in labels : \A k \in DOMAIN index : index[k] # l

\* Index.drop(labels)
Drop(index, labels) == SelectSeq(index, LAMBDA c : c \notin labels)

\* astype('Int64') raises on a float that is not a whole number.
AstypeRaises(df, col) ==
    \E i \in DOMAIN df.rows : ~df.rows[i][col].na /\ df.rows[i][col].v % 2 # 0

\* df[col] = df[col].astype('Int64')
AstypeInt64(df, col) ==
    [dtypes |-> [df.dtypes EXCEPT ![col] = "Int64"],
     rows |-> [i \in DOMAIN df.rows |->
                  [df.rows[i] EXCEPT ![col] =
                      IF @.na THEN NaN ELSE Num(@.v \div 2)]]]

\* One turn of the loop: try the conversion, print when it raises.
TryConvert(st, col) ==
    IF AstypeRaises(st.df, col)
    THEN [df |-> st.df, printed |-> st.printed \union {col}]
    ELSE [df |-> AstypeInt64(st.df, col), printed |-> st.printed]

RECURSIVE ConvertLoopBreak(_, _)
ConvertLoopBreak(st, cols) ==
    IF cols = <<>> THEN st
    ELSE IF AstypeRaises(st.df, Head(cols))
         THEN [df |-> st.df, printed |-> st.printed \union {Head(cols)}]
         ELSE ConvertLoopBreak(TryConvert(st, Head(cols)), Tail(cols))

\* for col in float_cols
RECURSIVE ConvertLoop(_, _)
ConvertLoop(st, cols) ==
    IF cols = <<>> THEN st
    ELSE ConvertLoop(TryConvert(st, Head(cols)), Tail(cols))

\* df[df['Country/Region'] != 'Diamond Princess']: a new frame
DropShip(df) ==
    [dtypes |-> df.dtypes,
     rows |-> SelectSeq(df.rows, LAMBDA r : r["Country"] # "Diamond Princess")]

\* world_data.loc[mask, 'WHO Region'] = world_data.loc[mask, 'Continent']
BackfillRegion(df) ==
    [dtypes |-> df.dtypes,
     rows |-> [i \in DOMAIN df.rows |->
                  IF df.rows[i]["WHO_Region"] = NaNObj
                  THEN [df.rows[i] EXCEPT !["WHO_Region"] = df.rows[i]["Continent"]]
                  ELSE df.rows[i]]]

\* fillna(0, inplace=True) on the frame it is called on
FillNa0(df) ==
    [dtypes |-> df.dtypes,
     rows |-> [i \in DOMAIN df.rows |->
                  [c \in DOMAIN df.rows[i] |->
                      IF c \in ObjectCols
                      THEN (IF df.rows[i][c] = NaNObj THEN "0" ELSE df.rows[i][c])
                      ELSE (IF df.rows[i][c].na THEN Num(0) ELSE df.rows[i][c])]]]

\* The frame load_world_data returns: df, which the statements after the
\* loop never assign to. Row selection makes a new frame, the back-fill and
\* the fill act on that one, and fillna(inplace=True) returns None.
Returned(df, local) == df

\* The call of load_world_data() and the assignment of its result.
LoadWorldData ==
    /\ pc = "start"
    /\ LET df0 == ReadCsv(csv)
           float_cols == SelectFloat64(df0)
       IN IF DropRaises(float_cols, PerMillion)
          THEN /\ pc' = "error"
               /\ UNCHANGED <<world_data, cleaned, printed>>
          ELSE LET st == ConvertLoop([df |-> df0, printed |-> {}],
                                     Drop(float_cols, PerMillion))
                   local == FillNa0(BackfillRegion(DropShip(st.df)))
               IN /\ pc' = "loaded"
                  /\ world_data' = Returned(st.df, local)
                  /\ cleaned' = local
                  /\ printed' = st.printed
    /\ UNCHANGED <<csv, tie_order, totals_grouped>>
    /\ UNCHANGED tsvars

\* Series.sum() of a group: missing values are skipped
RECURSIVE SumCells(_, _)
SumCells(rows, col) ==
    IF rows = <<>> THEN 0
    ELSE (IF rows[1][col].na THEN 0 ELSE rows[1][col].v) + SumCells(Tail(rows), col)

\* totals_grouped: per country the sums of the totals, by TotalDeaths
\* descending, the first ten
TotalsGrouped(wd, tie) ==
    LET keys == SelectSeq(WorldCountries,
                    LAMBDA c : \E i \in DOMAIN wd.rows : wd.rows[i]["Country"] = c)
        agg == [k \in DOMAIN keys |->
                   LET g == SelectSeq(wd.rows, LAMBDA r : r["Country"] = keys[k])
                   IN [Country |-> keys[k],
                       TotalDeaths |-> SumCells(g, "TotalDeaths"),
                       TotalTests |-> SumCells(g, "TotalTests")]]
    IN Head_(SortDescending(agg,
                 [i \in DOMAIN agg |->
                     [j \in DOMAIN agg |-> agg[i].TotalDeaths >= agg[j].TotalDeaths]],
                 tie),
             Top10N)

\* The combined comparison of the snapshot part.
CombinedComparison ==
    /\ pc = "loaded"
    /\ pc' = "shown"
    /\ totals_grouped' = TotalsGrouped(world_data, tie_order)
    /\ UNCHANGED <<csv, tie_order, world_data, cleaned, printed>>
    /\ UNCHANGED tsvars

---------------------------------------------------------------------------
(* The filter-and-aggregate pass *)

\* filtered_data
FilteredData(df, regions, countries, s, e) ==
    LET byRegionDate ==
            BoolIndex(df, [i \in DOMAIN df |->
                IsIn(df[i].WHO_Region, regions) /\ Between(df[i].Date, s, e)])
    IN IF countries # {}
       THEN BoolIndex(byRegionDate, [i \in DOMAIN byRegionDate |->
                IsIn(byRegionDate[i].Country, countries)])
       ELSE byRegionDate

GlobalDataMax(fd) ==
    LET keys == Sorted(Unique(fd, "Date"))
    IN [k \in DOMAIN keys |->
           LET g == Group(fd, "Date", keys[k])
           IN [Date |-> keys[k], Confirmed |-> Max(g, "Confirmed"),
               Deaths |-> Max(g, "Deaths"), Recovered |-> Max(g, "Recovered")]]

\* global_data: groupby sorts the group keys
GlobalData(fd) ==
    LET keys == Sorted(Unique(fd, "Date"))
    IN [k \in DOMAIN keys |->
           LET g == Group(fd, "Date", keys[k])
           IN [Date |-> keys[k], Confirmed |-> Sum(g, "Confirmed"),
               Deaths |-> Sum(g, "Deaths"), Recovered |-> Sum(g, "Recovered")]]

\* The mean of a group is the fraction total / n.
MeanGe(a, b) == a.total * b.n >= b.total * a.n

\* region_deaths
RegionDeaths(fd, tie) ==
    LET keys == Sorted(Unique(fd, "WHO_Region"))
        agg == [k \in DOMAIN keys |->
                   LET g == Group(fd, "WHO_Region", keys[k])
                   IN [WHO_Region |-> keys[k], total |-> Sum(g, "Deaths"),
                       n |-> Len(g)]]
    IN SortDescending(agg,
           [i \in DOMAIN agg |-> [j \in DOMAIN agg |-> MeanGe(agg[i], agg[j])]],
           tie)

ConfirmedLe(a, b) == a.Confirmed <= b.Confirmed

ConfirmedGe(a, b) == a.Confirmed >= b.Confirmed

\* .index.tolist()
IndexList(df) == [k \in DOMAIN df |-> df[k].Country]

\* top5
Top5(fd, tie) ==
    LET keys == Sorted(Unique(fd, "Country"))
        agg == [k \in DOMAIN keys |->
                   [Country |-> keys[k],
                    Confirmed |-> Max(Group(fd, "Country", keys[k]), "Confirmed")]]
        ranked == SortDescending(agg,
                      [i \in DOMAIN agg |->
                          [j \in DOMAIN agg |-> ConfirmedGe(agg[i], agg[j])]],
                      tie)
    IN IndexList(Head_(ranked, HeadN))

\* subset.iloc[-1]
LastRow(subset) == subset[Len(subset)]

\* the values of the pie charts, one per country of top5 that has rows
RECURSIVE Pies(_, _)
Pies(fd, countries) ==
    IF countries = <<>> THEN <<>>
    ELSE LET subset == Group(fd, "Country", Head(countries))
         IN (IF subset = <<>> THEN <<>>
             ELSE <<[Country |-> Head(countries),
                     Active |-> LastRow(subset).Active,
                     Recovered |-> LastRow(subset).Recovered,
                     Deaths |-> LastRow(subset).Deaths]>>)
            \o Pies(fd, Tail(countries))

\* The sidebar's options.
AllRegions == Unique(data, "WHO_Region")
AllCountries == Unique(data, "Country")

RenderPassInPlace(regions, countries, s, e) ==
    LET fd == FilteredData(data, regions, countries, s, e)
        t == Top5(fd, tie_order)
    IN /\ selected_region' = regions
       /\ selected_country' = countries
       /\ start_date' = s
       /\ end_date' = e
       /\ filtered_data' = fd
       /\ global_data' = GlobalData(fd)
       /\ region_deaths' = RegionDeaths(fd, tie_order)
       /\ top5' = t
       /\ pies' = Pies(fd, t)
       /\ data' = fd
       /\ first_view' = IF rendered THEN first_view ELSE fd
       /\ rendered' = TRUE
       /\ UNCHANGED tie_order
       /\ UNCHANGED worldvars

\* One run of the script below load_data() with the sidebar's values: the
\* filtered view and every aggregate of it. The time-series table is only
\* read.
RenderPass(regions, countries, s, e) ==
    LET fd == FilteredData(data, regions, countries, s, e)
        t == Top5(fd, tie_order)
    IN /\ selected_region' = regions
       /\ selected_country' = countries
       /\ start_date' = s
       /\ end_date' = e
       /\ filtered_data' = fd
       /\ global_data' = GlobalData(fd)
       /\ region_deaths' = RegionDeaths(fd, tie_order)
       /\ top5' = t
       /\ pies' = Pies(fd, t)
       /\ first_view' = IF rendered THEN first_view ELSE fd
       /\ rendered' = TRUE
       /\ UNCHANGED <<data, tie_order>>
       /\ UNCHANGED worldvars

\* A region is added to or removed from the region multiselect.
ToggleRegion(r) ==
    /\ rendered
    /\ r \in AllRegions
    /\ RenderPass(IF r \in selected_region THEN selected_region \ {r}
                  ELSE selected_region \union {r},
                  selected_country, start_date, end_date)

\* A country is added to or removed from the country multiselect.
ToggleCountry(c) ==
    /\ rendered
    /\ c \in AllCountries
    /\ c \in selected_country \/ Cardinality(selected_country) < MaxPicked
    /\ RenderPass(selected_region,
                  IF c \in selected_country THEN selected_country \ {c}
                  ELSE selected_country \union {c},
                  start_date, end_date)

\* Another date range is picked.
PickDates(s, e) ==
    /\ rendered
    /\ s <= e
    /\ <<s, e>> # <<start_date, end_date>>
    /\ RenderPass(selected_region, selected_country, s, e)

\* The script runs again with the sidebar as it is.
Rerun ==
    /\ rendered
    /\ RenderPass(selected_region, selected_country, start_date, end_date)

\* The first run of the script: the sidebar's defaults are every region, no
\* country and the whole span of the table's dates.
FirstRun ==
    /\ ~rendered
    /\ LET ds == Sorted(Unique(data, "Date"))
       IN RenderPass(AllRegions, {}, ds[1], ds[Len(ds)])

\* load_data() has returned the time-series table; nothing is shown yet.
Loaded(table) ==
    /\ tie_order \in {"kept", "reversed"}
    /\ data = table
    /\ rendered = FALSE
    /\ selected_region = {}
    /\ selected_country = {}
    /\ start_date = 1
    /\ end_date = 1
    /\ filtered_data = <<>>
    /\ global_data = <<>>
    /\ region_deaths = <<>>
    /\ top5 = <<>>
    /\ pies = <<>>
    /\ first_view = <<>>
    /\ csv = <<>>
    /\ pc = "shown"
    /\ world_data = NoFrame
    /\ cleaned = NoFrame
    /\ printed = {}
    /\ totals_grouped = <<>>

Init ==
    \/ \E n \in 1..MaxRows :
          \E ks \in KeySeqs(Countries \X Dates, n), ps \in [1..n -> Profiles] :
              Loaded(NarrowTable(ks, ps))
    \/ \E n \in [1..(HeadN + 1) -> CountRange], rev \in BOOLEAN :
          Loaded(WideTable(n, rev))

Next ==
    \/ FirstRun
    \/ \E r \in Regions : ToggleRegion(r)
    \/ \E c \in WideCountries : ToggleCountry(c)
    \/ \E s \in Dates, e \in Dates : PickDates(s, e)
    \/ Rerun

Spec == Init /\ [][Next]_vars

\* The snapshot part of the script, on any snapshot file.
InitWorld ==
    /\ \E n \in 1..MaxWorldRows :
          \E t \in [1..n -> RowTexts], d \in [1..n -> TotalDeathsCells],
             x \in [1..n -> TotalTestsCells], kinds \in PerMillionKinds :
              csv = CsvFile(n, t, d, x, kinds)
    /\ tie_order \in {"kept", "reversed"}
    /\ pc = "start"
    /\ world_data = NoFrame
    /\ cleaned = NoFrame
    /\ printed = {}
    /\ totals_grouped = <<>>
    /\ data = <<>>
    /\ selected_region = {}
    /\ selected_country = {}
    /\ start_date = 1
    /\ end_date = 1
    /\ filtered_data = <<>>
    /\ global_data = <<>>
    /\ region_deaths = <<>>
    /\ top5 = <<>>
    /\ pies = <<>>
    /\ first_view = <<>>
    /\ rendered = FALSE

NextWorld ==
    \/ LoadWorldData
    \/ CombinedComparison

SpecWorld == InitWorld /\ [][NextWorld]_vars

----------------------------------------------------------------------------------------------------
(* The properties of the filter-and-aggregate pass *)

Rows(df) == {df[i] : i \in DOMAIN df}

ViewCountries == {filtered_data[i].Country : i \in DOMAIN filtered_data}

\* The greatest confirmed count of a country over the filtered view.
MaxConfirmed(c) ==
    LET S == {filtered_data[i].Confirmed :
                 i \in {j \in DOMAIN filtered_data : filtered_data[j].Country = c}}
    IN CHOOSE m \in S : \A x \in S : x <= m

\* The row of the time-series table a country first appears in.
FirstRow(c) ==
    CHOOSE i \in DOMAIN data :
        /\ data[i].Country = c
        /\ \A j \in DOMAIN data : data[j].Country = c => i <= j

Place(c) == CHOOSE k \in DOMAIN top5 : top5[k] = c

Listed == {top5[k] : k \in DOMAIN top5}

\* C1: the filtered view holds exactly the rows of the table whose region is
\* selected, whose date lies in [start, end] with both ends included, and
\* whose country is selected when any country is; none is lost or added.
C1_FilterExact ==
    LET keep(r) ==
            /\ r.WHO_Region \in selected_region
            /\ start_date <= r.Date
            /\ r.Date <= end_date
            /\ selected_country = {} \/ r.Country \in selected_country
    IN rendered =>
          /\ Rows(filtered_data) = {r \in Rows(data) : keep(r)}
          /\ Len(filtered_data) = Cardinality({i \in DOMAIN data : keep(data[i])})

\* A country is selected, a row dated on the end of the range is kept and a
\* row dated after it is dropped.
C1_Witness ==
    /\ rendered
    /\ selected_country # {}
    /\ \E i \in DOMAIN filtered_data : filtered_data[i].Date = end_date
    /\ \E j \in DOMAIN data :
          /\ data[j].Date > end_date
          /\ data[j].Country \in selected_country
          /\ data[j].WHO_Region \in selected_region

\* C2: the top-5 list has min(5, countries in the view) entries, all of them
\* countries of the view, in non-increasing order of their greatest confirmed
\* count, and no country left out has a strictly greater one than a listed
\* country.
C2_Top5Ranking ==
    /\ Len(top5) = (IF Cardinality(ViewCountries) < 5
                    THEN Cardinality(ViewCountries) ELSE 5)
    /\ \A k \in DOMAIN top5 : top5[k] \in ViewCountries
    /\ \A k, l \in DOMAIN top5 :
          k < l => MaxConfirmed(top5[k]) >= MaxConfirmed(top5[l])
    /\ \A c \in ViewCountries \ Listed : \A k \in DOMAIN top5 :
          MaxConfirmed(c) <= MaxConfirmed(top5[k])

\* Six countries in the view, five listed, with different counts among them.
C2_Witness ==
    /\ Cardinality(ViewCountries) = 6
    /\ Len(top5) = 5
    /\ \E k, l \in DOMAIN top5 : MaxConfirmed(top5[k]) > MaxConfirmed(top5[l])
    /\ \E c \in ViewCountries \ Listed : MaxConfirmed(c) < MaxConfirmed(top5[1])

\* C3 as stated: of two countries with the same greatest confirmed count, the
\* one whose first row comes earlier in the table is ranked first, and takes
\* the fifth place when only one of them fits.
C3_TiesByRowOrder ==
    \A a, b \in ViewCountries :
        (a # b /\ MaxConfirmed(a) = MaxConfirmed(b) /\ FirstRow(a) < FirstRow(b)
            /\ b \in Listed)
        => (a \in Listed /\ Place(a) < Place(b))

\* C3 as amended: a listed country stands after every country with a
\* strictly greater count and among those with at least its count; where the
\* sort keeps equal keys in place, countries with equal counts stand in name
\* order, and the fifth place goes to the first of them by name.
C3_TiesBySort ==
    /\ \A k \in DOMAIN top5 :
          /\ Cardinality({c \in ViewCountries :
                             MaxConfirmed(c) > MaxConfirmed(top5[k])}) < k
          /\ k <= Cardinality({c \in ViewCountries :
                                  MaxConfirmed(c) >= MaxConfirmed(top5[k])})
    /\ tie_order = "kept" =>
          /\ \A k, l \in DOMAIN top5 :
                (k < l /\ MaxConfirmed(top5[k]) = MaxConfirmed(top5[l]))
                => top5[k] < top5[l]
          /\ \A c \in ViewCountries \ Listed : \A k \in DOMAIN top5 :
                MaxConfirmed(c) = MaxConfirmed(top5[k]) => top5[k] < c

\* Equal counts decide the fifth place, and the country left out comes
\* earlier in the table than the one that took it.
C3_Witness ==
    /\ tie_order = "kept"
    /\ Len(top5) = 5
    /\ \E c \in ViewCountries \ Listed :
          /\ MaxConfirmed(c) = MaxConfirmed(top5[5])
          /\ FirstRow(c) < FirstRow(top5[5])

\* C4 as stated: each pie shows the active, recovered and deaths values of
\* the country's row with the greatest date in the filtered view.
C4_LatestByDate ==
    \A k \in DOMAIN pies :
        \A i \in DOMAIN filtered_data :
            (/\ filtered_data[i].Country = pies[k].Country
             /\ \A j \in DOMAIN filtered_data :
                   filtered_data[j].Country = pies[k].Country
                   => filtered_data[j].Date <= filtered_data[i].Date)
            => /\ pies[k].Active = filtered_data[i].Active
               /\ pies[k].Recovered = filtered_data[i].Recovered
               /\ pies[k].Deaths = filtered_data[i].Deaths

\* C7: with no region selected the view and every aggregate of it are empty.
C7_EmptySelection ==
    (rendered /\ selected_region = {}) =>
        /\ filtered_data = <<>>
        /\ global_data = <<>>
        /\ region_deaths = <<>>
        /\ top5 = <<>>
        /\ pies = <<>>

\* No region is selected, while a country with rows in the date range is.
C7_Witness ==
    /\ rendered
    /\ selected_region = {}
    /\ \E i \in DOMAIN data :
          /\ data[i].Country \in selected_country
          /\ start_date <= data[i].Date
          /\ data[i].Date <= end_date

\* The sum of a column over the rows of the view at the positions I.
RECURSIVE SumAt(_, _)
SumAt(I, col) ==
    IF I = {} THEN 0
    ELSE LET i == CHOOSE x \in I : TRUE
         IN filtered_data[i][col] + SumAt(I \ {i}, col)

\* C8: the per-date total has one entry for each date of the view, in
\* strictly ascending date order, each with the sums of confirmed, deaths and
\* recovered over the rows of that date.
C8_GlobalTotal ==
    /\ {global_data[k].Date : k \in DOMAIN global_data}
          = {filtered_data[i].Date : i \in DOMAIN filtered_data}
    /\ \A k, l \in DOMAIN global_data :
          k < l => global_data[k].Date < global_data[l].Date
    /\ \A k \in DOMAIN global_data :
          LET I == {i \in DOMAIN filtered_data :
                       filtered_data[i].Date = global_data[k].Date}
          IN /\ global_data[k].Confirmed = SumAt(I, "Confirmed")
             /\ global_data[k].Deaths = SumAt(I, "Deaths")
             /\ global_data[k].Recovered = SumAt(I, "Recovered")

\* Two dates, the later one first in the table, and a date whose total adds
\* the rows of several countries.
C8_Witness ==
    /\ Len(global_data) = 2
    /\ \E i, j \in DOMAIN filtered_data :
          i < j /\ filtered_data[i].Date > filtered_data[j].Date
    /\ \E k \in DOMAIN global_data : \E i, j \in DOMAIN filtered_data :
          /\ i # j
          /\ filtered_data[i].Date = global_data[k].Date
          /\ filtered_data[j].Date = global_data[k].Date
          /\ filtered_data[i].Confirmed > 0
          /\ filtered_data[j].Confirmed > 0

\* One country, one row per date: the series is the rows' confirmed counts.
C8_WitnessSeries ==
    /\ Len(filtered_data) = 2
    /\ filtered_data[1].Country = filtered_data[2].Country
    /\ filtered_data[1].Date < filtered_data[2].Date
    /\ filtered_data[1].Confirmed < filtered_data[2].Confirmed

\* C9: a run of the script leaves the time-series table as it was; the
\* per-date total it shows is the one the filtered view gives when computed
\* again; the same selection gives the same view as the run before, and the
\* first run's selection gives the first run's view.
C9_NoHiddenMutation ==
    [][/\ data' = data
       /\ global_data' = GlobalData(filtered_data')
       /\ (<<selected_region', selected_country', start_date', end_date'>>
             = <<selected_region, selected_country, start_date, end_date>>)
          => (filtered_data' = filtered_data /\ global_data' = global_data)
       /\ (/\ selected_region' = {data[i].WHO_Region : i \in DOMAIN data}
           /\ selected_country' = {}
           /\ \A i \in DOMAIN data :
                 start_date' <= data[i].Date /\ data[i].Date <= end_date')
          => filtered_data' = first_view']_vars

\* The first run's selection is back after a run that dropped rows, or the
\* selection is another one.
C9_Witness ==
    /\ rendered
    /\ filtered_data # first_view
    /\ filtered_data # <<>>
    /\ Len(filtered_data) < Len(data)

---------------------------------------------------------------------------
(* The properties of the snapshot loader *)

WorldLoaded == pc \in {"loaded", "shown"}

\* C5 as stated: the snapshot table holds no row of the ship, a row whose
\* region is missing is one whose continent is missing too, and the combined
\* comparison has no entry for the ship.
C5_OutlierDroppedRegionFilled ==
    /\ WorldLoaded =>
          \A i \in DOMAIN world_data.rows :
              /\ world_data.rows[i]["Country"] # "Diamond Princess"
              /\ world_data.rows[i]["WHO_Region"] = NaNObj
                 => world_data.rows[i]["Continent"] = NaNObj
    /\ pc = "shown" =>
          \A k \in DOMAIN totals_grouped :
              totals_grouped[k].Country # "Diamond Princess"

\* C6 as stated: the snapshot table has no missing value in any column.
C6_NoMissingValue ==
    WorldLoaded =>
        \A i \in DOMAIN world_data.rows :
            /\ \A c \in ObjectCols : world_data.rows[i][c] # NaNObj
            /\ \A c \in NumericCols : ~world_data.rows[i][c].na

\* C10: a count column whose conversion fails keeps its values and its type
\* and the load goes on; every other float count column holds the whole
\* numbers of the file as Int64; the per-million columns are as read.
C10_ConversionTolerated ==
    /\ pc = "error" =>
          \E c \in PerMillion :
              \A i \in DOMAIN csv : ~csv[i][c].na /\ csv[i][c].v % 2 = 0
    /\ WorldLoaded =>
          \A c \in NumericCols :
              LET whole == \A i \in DOMAIN csv : csv[i][c].na \/ csv[i][c].v % 2 = 0
                  float == \E i \in DOMAIN csv : csv[i][c].na \/ csv[i][c].v % 2 = 1
                  asRead == /\ world_data.dtypes[c] = "float64"
                            /\ \A i \in DOMAIN csv : world_data.rows[i][c] = csv[i][c]
              IN /\ c \in PerMillion => asRead
                 /\ (c \in CountCols /\ float /\ ~whole) => (asRead /\ c \in printed)
                 /\ (c \in CountCols /\ float /\ whole) =>
                       /\ world_data.dtypes[c] = "Int64"
                       /\ c \notin printed
                       /\ \A i \in DOMAIN csv :
                             /\ world_data.rows[i][c].na = csv[i][c].na
                             /\ ~csv[i][c].na =>
                                   2 * world_data.rows[i][c].v = csv[i][c].v

\* The conversion of TotalDeaths failed, TotalTests was converted after it,
\* and a per-million column of whole numbers and gaps was left alone.
C10_Witness ==
    /\ pc = "loaded"
    /\ printed = {"TotalDeaths"}
    /\ world_data.dtypes["TotalTests"] = "Int64"
    /\ \E c \in PerMillion :
          /\ \E i \in DOMAIN csv : csv[i][c].na
          /\ \A i \in DOMAIN csv : csv[i][c].v % 2 = 0
===========================================================================
